---- MODULE Spec2Model ----
(***************************************************************************)
(* Model of scrape.py: the three poll loops (permit_loop,                  *)
(* ferry_reservation_loop, permit_json_loop), the notification step        *)
(* maybe_send_notification / send_email with the process-wide              *)
(* skip_notification_date_set, and the booking step                        *)
(* maybe_add_to_cart_and_sleep.                                            *)
(*                                                                         *)
(* Python strings are tuples of one-character strings, so that sorted()    *)
(* and ", ".join() are computed character by character.                    *)
(***************************************************************************)
EXTENDS Integers, Sequences, FiniteSets, TLC

\* ------------------------------------------------------------------------
\* Bounds of the model
\* ------------------------------------------------------------------------

\* number of iterations of a poll loop that are explored (the counter num)
MaxNum == 3

\* number of iterations of the hold loop of maybe_add_to_cart_and_sleep
MaxHolds == 2

\* ------------------------------------------------------------------------
\* Strings
\* ------------------------------------------------------------------------

\* code points of the characters that occur in labels
CodePoint ==
  [c \in {" ", ",", "-", "/", "0", "1", "2", "3", "4", "5", "6", "7", "8",
          "9", ":", "A", "M", "P"} |->
     CASE c = " " -> 32 [] c = "," -> 44 [] c = "-" -> 45 [] c = "/" -> 47
       [] c = "0" -> 48 [] c = "1" -> 49 [] c = "2" -> 50 [] c = "3" -> 51
       [] c = "4" -> 52 [] c = "5" -> 53 [] c = "6" -> 54 [] c = "7" -> 55
       [] c = "8" -> 56 [] c = "9" -> 57 [] c = ":" -> 58 [] c = "A" -> 65
       [] c = "M" -> 77 [] c = "P" -> 80]

\* Python's str.__lt__: lexicographic by code point, a proper prefix is less
RECURSIVE StrLess(_, _)
StrLess(s, t) ==
  IF t = <<>> THEN FALSE
  ELSE IF s = <<>> THEN TRUE
  ELSE IF CodePoint[Head(s)] < CodePoint[Head(t)] THEN TRUE
  ELSE IF CodePoint[Head(s)] > CodePoint[Head(t)] THEN FALSE
  ELSE StrLess(Tail(s), Tail(t))

\* variant of sorted: descending order (sorted(..., reverse=True))
RECURSIVE sortedDescending(_)
sortedDescending(S) ==
  IF S = {} THEN <<>>
  ELSE LET m == CHOOSE x \in S : \A y \in S \ {x} : StrLess(y, x)
       IN  <<m>> \o sortedDescending(S \ {m})

\* sorted(a_set): the elements of the set as a list in ascending str order
RECURSIVE sorted(_)
sorted(S) ==
  IF S = {} THEN <<>>
  ELSE LET m == CHOOSE x \in S : \A y \in S \ {x} : StrLess(x, y)
       IN  <<m>> \o sorted(S \ {m})

\* ", ".join(a_list)
RECURSIVE join(_)
join(list) ==
  IF list = <<>> THEN <<>>
  ELSE IF Len(list) = 1 THEN Head(list)
  ELSE Head(list) \o <<",", " ">> \o join(Tail(list))

\* the elements of a list
Range(list) == {list[i] : i \in 1..Len(list)}

\* ------------------------------------------------------------------------
\* Configuration (absl flags) and what the polled sites can show
\* ------------------------------------------------------------------------

Modes == {"permits", "permits_json", "ferry"}

\* values of --scrape_interval_secs: the default and the one of the first
\* sample command
ScrapeIntervals == {10, 600}

\* --permit_dates_to_add_to_cart, default "07/17,07/16"
permit_dates_to_add_to_cart ==
  << <<"0", "7", "/", "1", "7">>, <<"0", "7", "/", "1", "6">> >>

\* --permit_api_months_to_query, default "2020-07-01,2020-08-01": two months
permit_api_months_to_query == <<1, 2>>

\* day_month_str values the permit table can give (strftime("%m/%d"))
PermitLabels ==
  { <<"0", "7", "/", "1", "6">>, <<"0", "7", "/", "1", "7">>,
    <<"0", "7", "/", "1", "8">> }

\* time_str values the ferry schedule can give inside the departure window
FerryLabels ==
  { <<"1", ":", "0", "5", " ", "P", "M">>,
    <<"1", "2", ":", "3", "0", " ", "P", "M">>,
    <<"3", ":", "4", "0", " ", "P", "M">> }

\* keys of date_availability in the monthly JSON answers, per queried month
JsonKeys(month) ==
  IF month = 1
  THEN { <<"2", "0", "2", "0", "-", "0", "7", "-", "1", "6", "T", "0", "0">>,
         <<"2", "0", "2", "0", "-", "0", "7", "-", "1", "7", "T", "0", "0">> }
  ELSE { <<"2", "0", "2", "0", "-", "0", "8", "-", "0", "2", "T", "0", "0">> }

\* date = k[0:10]
DateOfKey(k) == SubSeq(k, 1, 10)

\* every label a snapshot of the given mode can hold
LabelsOf(m) ==
  IF m = "permits" THEN PermitLabels
  ELSE IF m = "ferry" THEN FerryLabels
  ELSE {DateOfKey(k) : k \in JsonKeys(1) \cup JsonKeys(2)}

\* ------------------------------------------------------------------------
\* Program constants
\* ------------------------------------------------------------------------

\* time.sleep(1) of permit_loop's first except block
PermitErrorSleepSecs == 1

\* time.sleep(600) of permit_loop's second except block
BookingErrorSleepSecs == 600

\* time.sleep(60) of ferry_reservation_loop's except block
FerryErrorSleepSecs == 60

\* time.sleep(60) of permit_json_loop's except block
JsonErrorSleepSecs == 60

\* time.sleep(500) of the hold loop of maybe_add_to_cart_and_sleep
HoldSleepSecs == 500

\* for ii in range(2, 9): the columns td[ii] of the permit table; the model
\* follows the first three days
PermitCells == 2..4

\* day_month_str of column ii: (est_now + timedelta(days=ii - 2)).strftime("%m/%d")
\* with est_now on 07/16
DayMonthStr(ii) ==
  IF ii = 2 THEN <<"0", "7", "/", "1", "6">>
  ELSE IF ii = 3 THEN <<"0", "7", "/", "1", "7">>
  ELSE <<"0", "7", "/", "1", "8">>

\* val_xpath of column ii: the locator is determined by the column
ValXpath(ii) == <<"tr[5]/td", ii>>

\* the steps of maybe_add_to_cart_and_sleep before its hold loop, in order
BookingSteps ==
  <<"slot_click", "book_button", "wait_cart_form", "exit_date", "agree_box">>

\* ------------------------------------------------------------------------
\* State
\* ------------------------------------------------------------------------

VARIABLES
  mode,                       \* FLAGS.mode
  email_addr,                 \* TRUE iff FLAGS.email_addr is not None
  scrape_interval_secs,       \* FLAGS.scrape_interval_secs
  pc,                         \* position of the running loop
  num,                        \* the loop counter num
  exc,                        \* the step whose exception is being handled
  skip_notification_date_set, \* the module-level set
  availability_map,           \* permit_loop: label -> val_xpath
  times_available,            \* ferry_reservation_loop
  available_date_set,         \* permit_json_loop
  month_idx,                  \* permit_json_loop: index of start_date
  book_date,                  \* maybe_add_to_cart_and_sleep: book_date
  book_step,                  \* index of the next booking step
  holds,                      \* iterations of the hold loop so far
  call,                       \* history: the latest maybe_send_notification call
  prev,                       \* history: date_set of the call before it
  seen,                       \* history: union of all date_set arguments
  ever_new,                   \* history: labels that were in filtered_dates
  twice_new,                  \* history: ... in two calls or more
  mailed,                     \* history: labels of subjects sendmail accepted
  last_fetch,                 \* history: outcome of the latest fetch attempt
  sleeps,                     \* history: loop sleeps since that attempt
  cycle_failed,               \* history: a fetch step of this iteration failed
  map_num                     \* history: the iteration that bound availability_map

flagVars == <<mode, email_addr, scrape_interval_secs>>
bookVars == <<book_date, book_step, holds>>
dataVars == <<availability_map, times_available, available_date_set, month_idx>>
notifyVars == <<skip_notification_date_set, call, prev, seen, ever_new,
                twice_new, mailed>>
timeVars == <<last_fetch, sleeps>>
cycleVars == <<cycle_failed, map_num>>

vars == <<mode, email_addr, scrape_interval_secs, pc, num, exc,
          skip_notification_date_set, availability_map, times_available,
          available_date_set, month_idx, book_date, book_step, holds,
          call, prev, seen, ever_new, twice_new, mailed, last_fetch, sleeps,
          cycle_failed, map_num>>

\* no string: the value of a Python variable holding None
None == <<>>

NoCall ==
  [made |-> FALSE, date_set |-> {}, skip_before |-> {}, filtered_dates |-> <<>>,
   skipped_dates |-> <<>>, subject |-> None, send |-> "none", cycle |-> 0]

Init ==
  /\ mode \in Modes
  /\ email_addr \in BOOLEAN
  /\ scrape_interval_secs \in ScrapeIntervals
  /\ pc = "main"
  /\ num = 0
  /\ exc = "none"
  /\ skip_notification_date_set = {}
  /\ availability_map = <<>>
  /\ times_available = {}
  /\ available_date_set = {}
  /\ month_idx = 0
  /\ book_date = None
  /\ book_step = 0
  /\ holds = 0
  /\ call = NoCall
  /\ prev = <<>>
  /\ seen = {}
  /\ ever_new = {}
  /\ twice_new = {}
  /\ mailed = {}
  /\ last_fetch = "none"
  /\ sleeps = <<>>
  /\ cycle_failed = FALSE
  /\ map_num = 0

\* ------------------------------------------------------------------------
\* send_email and maybe_send_notification
\* ------------------------------------------------------------------------

\* how one call of send_email can end: no address configured (prints and
\* returns), all of SMTP(), sendmail() and quit() return, or one of them raises
SendOutcomes(addr_set) ==
  IF addr_set
  THEN {"sent", "connect_error", "sendmail_error", "quit_error"}
  ELSE {"not_configured"}

\* send_email returns to its caller (does not raise)
SendReturns(outcome) == outcome \in {"sent", "not_configured"}

\* smtp_obj.sendmail returned: the message was handed to the transport
SendmailAccepted(outcome) == outcome \in {"sent", "quit_error"}

\* variant of FilteredDates: every label of the site, not those of date_set
FilteredDatesOfAllLabels(date_set, skip_set) == sorted(LabelsOf(mode) \ skip_set)

\* filtered_dates = sorted(date_set - skip_notification_date_set)
FilteredDates(date_set, skip_set) == sorted(date_set \ skip_set)

\* skipped_dates = sorted(date_set.intersection(skip_notification_date_set))
SkippedDates(date_set, skip_set) == sorted(date_set \cap skip_set)

\* variant of NothingToNotify: the early return is missing
NothingToNotifyNever(filtered_dates) == FALSE

\* if len(filtered_dates) == 0: return
NothingToNotify(filtered_dates) == Len(filtered_dates) = 0

\* subject = "Found %s availability for %s" % (FLAGS.mode, ", ".join(filtered_dates))
Subject(m, filtered_dates) ==
  <<"Found", " ", m, " ", "availability", " ", "for", " ">> \o join(filtered_dates)

\* variant of SkipSetAfter: the set is assigned, not updated
SkipSetAssigned(skip_set, filtered_dates, outcome) ==
  IF SendReturns(outcome) THEN Range(filtered_dates) ELSE skip_set

\* variant of SkipSetAfter: the update runs before send_email, whatever it does
SkipSetAlways(skip_set, filtered_dates, outcome) ==
  skip_set \cup Range(filtered_dates)

\* skip_notification_date_set.update(filtered_dates), the statement after
\* send_email: it runs only when send_email returned
SkipSetAfter(skip_set, filtered_dates, outcome) ==
  IF SendReturns(outcome) THEN skip_set \cup Range(filtered_dates) ELSE skip_set

\* variant of AfterNotify: permit_loop swallows the exception of the notify
\* step and goes on to the booking
AfterNotifyIgnoringErrors(m, raised) ==
  IF m = "permits" THEN "book"
  ELSE (IF raised THEN "crashed" ELSE "normal_sleep")

\* where a poll loop goes on after maybe_send_notification: permit_loop calls
\* it inside its first try block, the other two loops outside any try
AfterNotify(m, raised) ==
  IF m = "permits" THEN (IF raised THEN "error_sleep" ELSE "book")
  ELSE (IF raised THEN "crashed" ELSE "normal_sleep")

\* the set a loop passes to maybe_send_notification
DateSetArg ==
  IF mode = "permits" THEN DOMAIN availability_map
  ELSE IF mode = "ferry" THEN times_available
  ELSE available_date_set

\* maybe_send_notification(date_set), with the send_email call it makes
MaybeSendNotification ==
  /\ pc = "notify"
  /\ LET date_set == DateSetArg
         filtered_dates == FilteredDates(date_set, skip_notification_date_set)
         skipped_dates == SkippedDates(date_set, skip_notification_date_set)
         new == Range(filtered_dates)
     IN  /\ seen' = seen \cup date_set
         /\ prev' = IF call.made THEN <<call.date_set>> ELSE <<>>
         /\ ever_new' = ever_new \cup new
         /\ twice_new' = twice_new \cup (ever_new \cap new)
         /\ IF NothingToNotify(filtered_dates)
            THEN /\ call' = [made |-> TRUE, date_set |-> date_set,
                             skip_before |-> skip_notification_date_set,
                             filtered_dates |-> filtered_dates,
                             skipped_dates |-> skipped_dates,
                             subject |-> None, send |-> "none",
                             cycle |-> num]
                 /\ UNCHANGED <<skip_notification_date_set, mailed, exc>>
                 /\ pc' = AfterNotify(mode, FALSE)
            ELSE \E outcome \in SendOutcomes(email_addr) :
                 /\ call' = [made |-> TRUE, date_set |-> date_set,
                             skip_before |-> skip_notification_date_set,
                             filtered_dates |-> filtered_dates,
                             skipped_dates |-> skipped_dates,
                             subject |-> Subject(mode, filtered_dates),
                             send |-> outcome, cycle |-> num]
                 /\ mailed' = IF SendmailAccepted(outcome)
                              THEN mailed \cup new ELSE mailed
                 /\ skip_notification_date_set' =
                      SkipSetAfter(skip_notification_date_set, filtered_dates,
                                   outcome)
                 /\ exc' = IF SendReturns(outcome) THEN "none" ELSE "send_email"
                 /\ pc' = AfterNotify(mode, ~SendReturns(outcome))
  /\ UNCHANGED <<flagVars, cycleVars, num, dataVars, bookVars, timeVars>>

\* ------------------------------------------------------------------------
\* main
\* ------------------------------------------------------------------------

\* main: permit_json_loop needs no browser; the other modes create the
\* webdriver first, which can fail before any loop runs
Main ==
  /\ pc = "main"
  /\ IF mode = "permits_json"
     THEN pc' = "loop_top" /\ exc' = exc
     ELSE \/ pc' = "startup_failed" /\ exc' = "webdriver.Chrome"
          \/ pc' = (IF mode = "permits" THEN "fetch" ELSE "ferry_setup")
             /\ exc' = exc
  /\ UNCHANGED <<flagVars, cycleVars, num, dataVars, bookVars, notifyVars, timeVars>>

\* ------------------------------------------------------------------------
\* permit_loop
\* ------------------------------------------------------------------------

\* availability_map after reading the given columns with num_slots > 0
MapOfCells(cells) ==
  [d \in {DayMonthStr(ii) : ii \in cells} |->
     ValXpath(CHOOSE ii \in cells : DayMonthStr(ii) = d)]

\* one iteration of permit_loop up to the end of the table read: the page
\* load ahead of the try block, then select_permit_options and the cells
PermitFetch ==
  /\ pc = "fetch"
  /\ mode = "permits"
  /\ num < MaxNum
  /\ num' = num + 1
  /\ sleeps' = <<>>
  /\ \/ \* driver.get raises, outside the try block
        /\ pc' = "crashed"
        /\ exc' = "driver.get"
        /\ last_fetch' = "failed"
        /\ cycle_failed' = TRUE
        /\ UNCHANGED <<availability_map, map_num>>
     \/ \* select_permit_options raises: availability_map is not yet rebound
        /\ pc' = "error_sleep"
        /\ exc' = "select_permit_options"
        /\ last_fetch' = "failed"
        /\ cycle_failed' = TRUE
        /\ UNCHANGED <<availability_map, map_num>>
     \/ \* find_element_by_xpath or int() raises at column ii
        \E ii \in PermitCells : \E open \in SUBSET {jj \in PermitCells : jj < ii} :
          \E step \in {"find_element_by_xpath", "int"} :
            /\ pc' = "error_sleep"
            /\ exc' = step
            /\ last_fetch' = "failed"
            /\ cycle_failed' = TRUE
            /\ availability_map' = MapOfCells(open)
            /\ map_num' = num + 1
     \/ \* every column is read
        \E open \in SUBSET PermitCells :
          /\ pc' = "notify"
          /\ exc' = "none"
          /\ last_fetch' = "ok"
          /\ cycle_failed' = FALSE
          /\ availability_map' = MapOfCells(open)
          /\ map_num' = num + 1
  /\ UNCHANGED <<flagVars, times_available, available_date_set, month_idx,
                 bookVars, notifyVars>>

\* variant of FirstAvailable: the loop runs over the keys of the map in
\* sorted order and takes the first that is a requested date
FirstAvailableByKey(dates, keys) ==
  LET hits == Range(dates) \cap keys
  IN  IF hits = {} THEN None ELSE Head(sorted(hits))

\* the loop over FLAGS.permit_dates_to_add_to_cart: the first date that is a
\* key of the map, None when there is none
RECURSIVE FirstAvailable(_, _)
FirstAvailable(dates, keys) ==
  IF dates = <<>> THEN None
  ELSE IF Head(dates) \in keys THEN Head(dates)
  ELSE FirstAvailable(Tail(dates), keys)

\* book_date of maybe_add_to_cart_and_sleep(driver, availability_map)
BookDate(map) ==
  IF Cardinality(DOMAIN map) = 0 THEN None
  ELSE FirstAvailable(permit_dates_to_add_to_cart, DOMAIN map)

\* maybe_add_to_cart_and_sleep up to the choice of book_date: return when the
\* map is empty or no requested date is in it
MaybeAddToCart ==
  /\ pc = "book"
  /\ LET date == BookDate(availability_map)
     IN  IF date = None
         THEN pc' = "normal_sleep" /\ UNCHANGED bookVars
         ELSE /\ pc' = "booking"
              /\ book_date' = date
              /\ book_step' = 1
              /\ holds' = 0
  /\ UNCHANGED <<flagVars, cycleVars, num, exc, dataVars, notifyVars, timeVars>>

\* one of the booking steps ahead of the hold loop; any of them can raise,
\* which leaves maybe_add_to_cart_and_sleep for permit_loop's second except
BookStep ==
  /\ pc = "booking"
  /\ \/ /\ pc' = "booking_error_sleep"
        /\ exc' = BookingSteps[book_step]
        /\ book_date' = None
        /\ book_step' = 0
        /\ holds' = 0
     \/ /\ exc' = exc
        /\ IF book_step < Len(BookingSteps)
           THEN pc' = pc /\ book_step' = book_step + 1
           ELSE pc' = "add_to_cart" /\ book_step' = 0
        /\ UNCHANGED <<book_date, holds>>
  /\ UNCHANGED <<flagVars, cycleVars, num, dataVars, notifyVars, timeVars>>

\* hold loop: find and click add-permit-to-cart-button
AddToCart ==
  /\ pc = "add_to_cart"
  /\ holds < MaxHolds
  /\ \/ /\ pc' = "booking_error_sleep"
        /\ exc' = "add_to_cart"
        /\ book_date' = None
        /\ holds' = 0
     \/ /\ pc' = "hold_sleep"
        /\ UNCHANGED <<exc, book_date, holds>>
  /\ UNCHANGED <<flagVars, cycleVars, num, dataVars, book_step, notifyVars, timeVars>>

\* hold loop: time.sleep(500)
HoldSleep ==
  /\ pc = "hold_sleep"
  /\ sleeps' = Append(sleeps, <<"hold", HoldSleepSecs>>)
  /\ pc' = "modify_hold"
  /\ UNCHANGED <<flagVars, cycleVars, num, exc, dataVars, bookVars, notifyVars, last_fetch>>

\* variant of ModifyHold: no while True, the function returns after one round
ModifyHoldOnce ==
  /\ pc = "modify_hold"
  /\ \/ /\ pc' = "booking_error_sleep"
        /\ \E step \in {"modify_hold", "wait_exit_calendar"} : exc' = step
        /\ book_date' = None
        /\ holds' = 0
     \/ /\ pc' = "normal_sleep"
        /\ holds' = holds + 1
        /\ UNCHANGED <<exc, book_date>>
  /\ UNCHANGED <<flagVars, cycleVars, num, dataVars, book_step, notifyVars, timeVars>>

\* hold loop: click the modify button and wait for exitDateCalendar, then
\* the next iteration of while True
ModifyHold ==
  /\ pc = "modify_hold"
  /\ \/ /\ pc' = "booking_error_sleep"
        /\ \E step \in {"modify_hold", "wait_exit_calendar"} : exc' = step
        /\ book_date' = None
        /\ holds' = 0
     \/ /\ pc' = "add_to_cart"
        /\ holds' = holds + 1
        /\ UNCHANGED <<exc, book_date>>
  /\ UNCHANGED <<flagVars, cycleVars, num, dataVars, book_step, notifyVars, timeVars>>

\* variant of BookingErrorSleep: the booking is tried again after the pause
BookingErrorRetry ==
  /\ pc = "booking_error_sleep"
  /\ sleeps' = Append(sleeps, <<"booking_error", BookingErrorSleepSecs>>)
  /\ exc' = "none"
  /\ pc' = "book"
  /\ UNCHANGED <<flagVars, cycleVars, num, dataVars, bookVars, notifyVars, last_fetch>>

\* permit_loop's second except block: time.sleep(600); continue
BookingErrorSleep ==
  /\ pc = "booking_error_sleep"
  /\ sleeps' = Append(sleeps, <<"booking_error", BookingErrorSleepSecs>>)
  /\ exc' = "none"
  /\ pc' = "fetch"
  /\ UNCHANGED <<flagVars, cycleVars, num, dataVars, bookVars, notifyVars, last_fetch>>

\* ------------------------------------------------------------------------
\* ferry_reservation_loop
\* ------------------------------------------------------------------------

\* the statements of ferry_reservation_loop ahead of its while loop: parsing
\* the two time flags, loading the page and select_ferry_options
FerrySetup ==
  /\ pc = "ferry_setup"
  /\ \/ pc' = "startup_failed" /\ exc' = "select_ferry_options"
     \/ pc' = "fetch" /\ exc' = exc
  /\ UNCHANGED <<flagVars, cycleVars, num, dataVars, bookVars, notifyVars, timeVars>>

\* one iteration of the while loop up to the end of its try block: the rows
\* of the schedule are read into times_available, which was reset before
FerryFetch ==
  /\ pc = "fetch"
  /\ mode = "ferry"
  /\ num < MaxNum
  /\ num' = num + 1
  /\ sleeps' = <<>>
  /\ \/ \* find_elements_by_xpath raises: no row was read
        /\ pc' = "error_sleep"
        /\ exc' = "find_elements_by_xpath"
        /\ last_fetch' = "failed"
        /\ cycle_failed' = TRUE
        /\ times_available' = {}
     \/ \* a row cannot be parsed: the rows before it were read
        \E partial \in SUBSET FerryLabels :
          /\ pc' = "error_sleep"
          /\ exc' = "strptime"
          /\ last_fetch' = "failed"
          /\ cycle_failed' = TRUE
          /\ times_available' = partial
     \/ \* every row is read
        \E avail \in SUBSET FerryLabels :
          /\ pc' = "notify"
          /\ exc' = "none"
          /\ last_fetch' = "ok"
          /\ cycle_failed' = FALSE
          /\ times_available' = avail
  /\ UNCHANGED <<flagVars, map_num, availability_map, available_date_set, month_idx,
                 bookVars, notifyVars>>

\* the refresh click after the normal sleep, outside any try block
FerryRefresh ==
  /\ pc = "refresh"
  /\ \/ pc' = "crashed" /\ exc' = "refresh.click"
     \/ pc' = "fetch" /\ exc' = exc
  /\ UNCHANGED <<flagVars, cycleVars, num, dataVars, bookVars, notifyVars, timeVars>>

\* ------------------------------------------------------------------------
\* permit_json_loop
\* ------------------------------------------------------------------------

\* the head of one iteration of while True: available_date_set = set() and
\* the first start_date of the for loop
JsonBeginCycle ==
  /\ pc = "loop_top"
  /\ num < MaxNum
  /\ num' = num + 1
  /\ available_date_set' = {}
  /\ month_idx' = 1
  /\ cycle_failed' = FALSE
  /\ pc' = "fetch_month"
  /\ UNCHANGED <<flagVars, map_num, exc, availability_map, times_available, bookVars,
                 notifyVars, timeVars>>

\* where the for loop over the months goes on after the month at index idx:
\* the next start_date, or the statements after the for loop
AfterMonth(idx) ==
  IF idx < Len(permit_api_months_to_query) THEN "fetch_month" ELSE "notify"

\* the body of the for loop for one start_date
JsonFetchMonth ==
  /\ pc = "fetch_month"
  /\ sleeps' = <<>>
  /\ \/ \* requests.get raises: the except block, then continue of the for loop
        /\ pc' = "error_sleep"
        /\ exc' = "requests.get"
        /\ last_fetch' = "failed"
        /\ cycle_failed' = TRUE
        /\ UNCHANGED <<available_date_set, month_idx>>
     \/ \* status_code != 200: continue of the for loop, without a sleep
        /\ pc' = AfterMonth(month_idx)
        /\ month_idx' = month_idx + 1
        /\ exc' = exc
        /\ last_fetch' = "failed"
        /\ cycle_failed' = TRUE
        /\ UNCHANGED available_date_set
     \/ \* response.json() or a key lookup raises, outside the try block
        /\ pc' = "crashed"
        /\ \E step \in {"response.json", "KeyError"} : exc' = step
        /\ last_fetch' = "failed"
        /\ cycle_failed' = TRUE
        /\ UNCHANGED <<available_date_set, month_idx>>
     \/ \* the month is read: the dates with remaining > 0 are added
        \E open \in SUBSET JsonKeys(permit_api_months_to_query[month_idx]) :
          /\ pc' = AfterMonth(month_idx)
          /\ month_idx' = month_idx + 1
          /\ exc' = exc
          /\ last_fetch' = "ok"
          /\ cycle_failed' = cycle_failed
          /\ available_date_set' =
               available_date_set \cup {DateOfKey(k) : k \in open}
  /\ UNCHANGED <<flagVars, map_num, num, availability_map, times_available, bookVars,
                 notifyVars>>

\* ------------------------------------------------------------------------
\* the sleeps of the loops
\* ------------------------------------------------------------------------

\* variant of ErrorSleepSecs: the pause doubles with every iteration
ErrorSleepSecsDoubling(m) ==
  (IF m = "permits" THEN PermitErrorSleepSecs ELSE FerryErrorSleepSecs)
    * 2 ^ (num - 1)

\* the duration of the sleep in the except block that handles a failed fetch
ErrorSleepSecs(m) ==
  IF m = "permits" THEN PermitErrorSleepSecs
  ELSE IF m = "ferry" THEN FerryErrorSleepSecs
  ELSE JsonErrorSleepSecs

\* variant of ErrorSleep: permit_loop's first except block has no continue and
\* falls through to the booking
ErrorSleepFallsThrough ==
  /\ pc = "error_sleep"
  /\ sleeps' = Append(sleeps, <<"error", PermitErrorSleepSecs>>)
  /\ exc' = "none"
  /\ IF mode = "permits_json"
     THEN pc' = (IF month_idx < Len(permit_api_months_to_query)
                 THEN "fetch_month" ELSE "notify")
          /\ month_idx' = month_idx + 1
     ELSE pc' = (IF mode = "permits" THEN "book" ELSE "fetch")
          /\ month_idx' = month_idx
  /\ UNCHANGED <<flagVars, cycleVars, num, availability_map, times_available,
                 available_date_set, bookVars, notifyVars, last_fetch>>

\* the except blocks for a failed fetch: sleep, then continue. In permit_loop
\* and ferry_reservation_loop continue restarts the while loop; in
\* permit_json_loop it is the continue of the for loop over the months
ErrorSleep ==
  /\ pc = "error_sleep"
  /\ sleeps' = Append(sleeps, <<"error", ErrorSleepSecs(mode)>>)
  /\ exc' = "none"
  /\ IF mode = "permits_json"
     THEN pc' = AfterMonth(month_idx) /\ month_idx' = month_idx + 1
     ELSE pc' = "fetch" /\ month_idx' = month_idx
  /\ UNCHANGED <<flagVars, cycleVars, num, availability_map, times_available,
                 available_date_set, bookVars, notifyVars, last_fetch>>

\* where a loop goes on after the sleep at the end of an iteration
AfterNormalSleep(m) ==
  IF m = "permits" THEN "fetch"
  ELSE IF m = "ferry" THEN "refresh"
  ELSE "loop_top"

\* time.sleep(FLAGS.scrape_interval_secs) at the end of an iteration
NormalSleep ==
  /\ pc = "normal_sleep"
  /\ sleeps' = Append(sleeps, <<"normal", scrape_interval_secs>>)
  /\ pc' = AfterNormalSleep(mode)
  /\ UNCHANGED <<flagVars, cycleVars, num, exc, dataVars, bookVars, notifyVars, last_fetch>>

Next ==
  \/ Main
  \/ PermitFetch
  \/ MaybeSendNotification
  \/ MaybeAddToCart
  \/ BookStep
  \/ AddToCart
  \/ HoldSleep
  \/ ModifyHold
  \/ BookingErrorSleep
  \/ FerrySetup
  \/ FerryFetch
  \/ FerryRefresh
  \/ JsonBeginCycle
  \/ JsonFetchMonth
  \/ ErrorSleep
  \/ NormalSleep

Spec == Init /\ [][Next]_vars

\* permit_loop keeps running: the pause of its second except block ends, and
\* the page load and table read of an iteration return or raise
LiveSpec ==
  Init /\ [][Next]_vars /\ WF_vars(BookingErrorSleep) /\ WF_vars(PermitFetch)

TypeOK ==
  /\ mode \in Modes
  /\ num \in 0..MaxNum
  /\ skip_notification_date_set \subseteq LabelsOf(mode)

\* ------------------------------------------------------------------------
\* Properties
\* ------------------------------------------------------------------------

\* C1: at-most-once notification. No label is in filtered_dates (the labels
\* put in the subject) of more than one call of maybe_send_notification,
\* whatever the snapshots and whether send_email returns or raises.
AtMostOnceNotification == twice_new = {}

\* C2: commit-before-send. Once a call of maybe_send_notification with at
\* least one new label has ended, all its new labels are in
\* skip_notification_date_set, also when send_email raised.
CommitBeforeSend ==
  call.made => Range(call.filtered_dates) \subseteq skip_notification_date_set

\* the steps of the fetch and parse part of a cycle, over the three loops
FetchSteps ==
  {"driver.get", "select_permit_options", "find_element_by_xpath", "int",
   "find_elements_by_xpath", "strptime", "refresh.click", "requests.get",
   "response.json", "KeyError"}

\* C3: no error of a fetch or parse step (page load, element lookup, refresh
\* click, HTTP request, JSON decoding, missing JSON keys) ends a running poll
\* loop: the loop function never exits because of it.
NoFetchErrorEndsLoop == pc = "crashed" => exc \notin FetchSteps

\* C4: a failure of send_email during the notify step does not end the poll
\* loop, in any mode.
NotifierFailureKeepsLoop == ~(pc = "crashed" /\ exc = "send_email")

\* C5: backoff selection. When a loop is about to fetch, a failed previous
\* fetch is separated from it by exactly one sleep of the error backoff
\* interval and nothing else, and a successful previous fetch by a sleep of
\* scrape_interval_secs.
BackoffSelection ==
  pc \in {"fetch", "fetch_month"} =>
    /\ last_fetch = "failed" => sleeps = << <<"error", ErrorSleepSecs(mode)>> >>
    /\ last_fetch = "ok" =>
         \E i \in 1..Len(sleeps) : sleeps[i] = <<"normal", scrape_interval_secs>>

\* a list of strings is in ascending order without duplicates
Ascending(list) ==
  \A i, j \in 1..Len(list) : i < j => StrLess(list[i], list[j])

\* the pieces of a text between the separators ", "
RECURSIVE SplitAtCommaSpace(_, _)
SplitAtCommaSpace(text, piece) ==
  IF text = <<>> THEN <<piece>>
  ELSE IF Len(text) >= 2 /\ text[1] = "," /\ text[2] = " "
       THEN <<piece>> \o SplitAtCommaSpace(SubSeq(text, 3, Len(text)), <<>>)
       ELSE SplitAtCommaSpace(Tail(text), Append(piece, Head(text)))

\* the labels listed in a subject, after its eight leading words and blanks
LabelsInSubject(subject) ==
  SplitAtCommaSpace(SubSeq(subject, 9, Len(subject)), <<>>)

\* C6: delta correctness. Every call of maybe_send_notification computes
\* filtered_dates = S \ N and skipped_dates = S \cap N, each ascending in
\* string order without duplicates, and the subject of the notification
\* lists exactly the labels of filtered_dates in that order.
DeltaCorrectness ==
  call.made =>
    /\ Range(call.filtered_dates) = call.date_set \ call.skip_before
    /\ Range(call.skipped_dates) = call.date_set \cap call.skip_before
    /\ Ascending(call.filtered_dates)
    /\ Ascending(call.skipped_dates)
    /\ call.send # "none" =>
         /\ SubSeq(call.subject, 1, 8) =
              <<"Found", " ", mode, " ", "availability", " ", "for", " ">>
         /\ LabelsInSubject(call.subject) = call.filtered_dates

\* C6 witness: a call with one label already notified and two new ones, as in
\* N = {07/10}, S = {07/10, 07/11, 07/12}, whose notification was sent
DeltaCorrectnessWitness ==
  /\ call.made
  /\ Cardinality(call.skip_before) = 1
  /\ Len(call.skipped_dates) = 1
  /\ Len(call.filtered_dates) = 2
  /\ call.send = "sent"

\* C7: idempotence. Of two consecutive calls of maybe_send_notification with
\* the same snapshot, the second has no new label and sends nothing.
Idempotence ==
  (call.made /\ prev = <<call.date_set>>) =>
    (call.filtered_dates = <<>> /\ call.send = "none")

\* C8: no-op on nothing new. A call of maybe_send_notification whose snapshot
\* has no label outside skip_notification_date_set calls no send_email and
\* leaves the set unchanged.
NoOpOnNothingNew ==
  [][(pc = "notify" /\ DateSetArg \subseteq skip_notification_date_set) =>
       /\ skip_notification_date_set' = skip_notification_date_set
       /\ mailed' = mailed
       /\ call'.send = "none"
       /\ call'.subject = None]_vars

\* C8 witness: a call has ended whose snapshot was not empty and held only
\* labels that were notified before
NoOpOnNothingNewWitness ==
  /\ call.made
  /\ call.date_set # {}
  /\ call.date_set \subseteq call.skip_before

\* C9: monotonicity. No step of any loop removes a label from
\* skip_notification_date_set.
Monotonicity ==
  [][skip_notification_date_set \subseteq skip_notification_date_set']_vars

\* C9 witness: after a later call, a notified label that is no longer in the
\* snapshot is still in the set, next to a label that call added
MonotonicityWitness ==
  /\ call.made
  /\ call.filtered_dates # <<>>
  /\ call.skip_before # {}
  /\ call.skip_before \cap call.date_set = {}
  /\ call.skip_before \subseteq skip_notification_date_set
  /\ Range(call.filtered_dates) \subseteq skip_notification_date_set

\* C10: skip_notification_date_set is empty at the start, is at all times a
\* subset of the union of the snapshots passed to maybe_send_notification so
\* far, and is changed by no step other than maybe_send_notification.
NotifiedSubsetOfSeen ==
  /\ skip_notification_date_set = {}
  /\ [](skip_notification_date_set \subseteq seen)
  /\ [][skip_notification_date_set' # skip_notification_date_set =>
          MaybeSendNotification]_vars

\* C10 witness: some but not all of the labels seen so far are in the set
NotifiedSubsetOfSeenWitness ==
  /\ skip_notification_date_set # {}
  /\ skip_notification_date_set # seen
  /\ pc # "notify"

\* every variable but pc
allButPc ==
  <<mode, email_addr, scrape_interval_secs, num, exc,
    skip_notification_date_set, availability_map, times_available,
    available_date_set, month_idx, book_date, book_step, holds,
    call, prev, seen, ever_new, twice_new, mailed, last_fetch, sleeps,
    cycle_failed, map_num>>

\* the positions of the preferred list whose date is a key of the map
PreferredHits ==
  {i \in 1..Len(permit_dates_to_add_to_cart) :
     permit_dates_to_add_to_cart[i] \in DOMAIN availability_map}

\* C11: booking selection. maybe_add_to_cart_and_sleep picks the first label
\* of permit_dates_to_add_to_cart, in list order, that is a key of the
\* availability map; when there is none (or the map is empty) it returns
\* with no booking step and no change of state.
BookingSelection ==
  [][pc = "book" =>
       IF PreferredHits = {}
       THEN pc' = "normal_sleep" /\ UNCHANGED allButPc
       ELSE /\ pc' = "booking"
            /\ book_step' = 1
            /\ \E i \in PreferredHits :
                 /\ \A j \in PreferredHits : i <= j
                 /\ book_date' = permit_dates_to_add_to_cart[i]]_vars

\* C11 witness: only the second preferred label is in the snapshot, and it
\* was picked
BookingSelectionWitness ==
  /\ pc = "booking"
  /\ book_step = 1
  /\ permit_dates_to_add_to_cart[1] \notin DOMAIN availability_map
  /\ book_date = permit_dates_to_add_to_cart[2]

\* C12: a failed fetch yields no snapshot for that cycle. In a cycle in which
\* a fetch step failed (an exception, a non-200 answer or a request error for
\* any queried month) no notification is sent and the tracker is not updated.
FailedFetchYieldsNoSnapshot ==
  cycle_failed =>
    ~(/\ call.made
      /\ call.cycle = num
      /\ \/ call.send # "none"
         \/ skip_notification_date_set # call.skip_before)

\* hold-extension mode: the add-to-cart step has completed at least once and
\* maybe_add_to_cart_and_sleep has not been left
HoldMode ==
  \/ pc \in {"hold_sleep", "modify_hold"}
  \/ pc = "add_to_cart" /\ holds > 0

\* what polling reads and writes: the loop counter, the snapshot, the tracker
\* and the notifications
pollVars ==
  <<num, availability_map, times_available, available_date_set, month_idx,
    skip_notification_date_set, call, prev, seen, ever_new, twice_new, mailed,
    last_fetch, cycle_failed, map_num>>

\* C13: mode exclusivity after booking. Once the add-to-cart step has
\* completed, no fetch, tracker update, notification or end-of-cycle sleep can
\* be taken; every step repeats the sleep / re-touch of the hold, or leaves
\* hold-extension mode by an exception of a hold step.
ModeExclusivity ==
  /\ [](HoldMode =>
          /\ mode = "permits"
          /\ ~ENABLED PermitFetch
          /\ ~ENABLED MaybeSendNotification
          /\ ~ENABLED MaybeAddToCart
          /\ ~ENABLED NormalSleep
          /\ ~ENABLED ErrorSleep)
  /\ [][HoldMode =>
          /\ UNCHANGED pollVars
          /\ \/ HoldMode'
             \/ /\ pc' = "booking_error_sleep"
                /\ exc' \in {"add_to_cart", "modify_hold", "wait_exit_calendar"}]_vars

\* C13 witness: the hold was re-touched once and the loop sleeps again
ModeExclusivityWitness ==
  /\ pc = "modify_hold"
  /\ holds >= 1
  /\ Len(sleeps) >= 2

\* the steps of the automated booking
BookingExcs ==
  Range(BookingSteps) \cup {"add_to_cart", "modify_hold", "wait_exit_calendar"}

\* the step that follows a raising booking step: the long pause and nothing
\* else, back to the head of the while loop
OnlyThePauseFollows ==
  exc \in BookingExcs =>
    /\ UNCHANGED <<pollVars, bookVars>>
    /\ pc' = "fetch"
    /\ exc' = "none"
    /\ sleeps' = Append(sleeps, <<"booking_error", BookingErrorSleepSecs>>)

\* C14: booking failure falls back to polling. When a booking step raises,
\* the error is caught in permit_loop, the only step that follows is the long
\* pause, with no further booking step, and after it the loop fetches the
\* availability again (as long as the explored iterations allow).
BookingFailureFallsBack ==
  /\ [](exc \in BookingExcs => pc = "booking_error_sleep")
  /\ [][OnlyThePauseFollows]_vars
  /\ (exc \in BookingExcs /\ num < MaxNum) ~>
       (pc \in {"notify", "error_sleep", "crashed"} /\ sleeps = <<>>)

\* C14 witness: after a failed booking step and the long pause the loop is
\* about to fetch again
BookingFailureFallsBackWitness ==
  /\ pc = "fetch"
  /\ num < MaxNum
  /\ sleeps # <<>>
  /\ sleeps[Len(sleeps)] = <<"booking_error", BookingErrorSleepSecs>>

\* the pause of the except block for a failed fetch, per loop
FixedBackoffOf(m) ==
  IF m = "permits" THEN PermitErrorSleepSecs
  ELSE IF m = "ferry" THEN FerryErrorSleepSecs
  ELSE JsonErrorSleepSecs

\* the pauses after a failed fetch that the loop has taken since the latest
\* fetch attempt
ErrorPauses == {i \in 1..Len(sleeps) : sleeps[i][1] = "error"}

\* C15 as stated: flat, longer backoff. The sleep after a failed cycle is one
\* fixed duration, the same after every consecutive failure, and longer than
\* scrape_interval_secs.
FlatLongerBackoff ==
  \A i \in ErrorPauses :
    /\ sleeps[i][2] = FixedBackoffOf(mode)
    /\ sleeps[i][2] > scrape_interval_secs

\* C15 as amended: flat backoff. The sleep after a failed fetch is one fixed
\* duration per loop, the same after every consecutive failure and whatever
\* scrape_interval_secs is; it is longer than scrape_interval_secs only in
\* ferry and permits_json mode with the default interval.
FlatBackoff ==
  \A i \in ErrorPauses :
    /\ sleeps[i][2] = FixedBackoffOf(mode)
    /\ sleeps[i][2] > scrape_interval_secs <=>
         (mode # "permits" /\ scrape_interval_secs < FerryErrorSleepSecs)

\* C15 witness: permit_loop after the pause of its second consecutive failed
\* fetch (no iteration got as far as the notify step)
FlatBackoffWitness ==
  /\ mode = "permits"
  /\ pc = "fetch"
  /\ num = 2
  /\ ~call.made
  /\ sleeps = << <<"error", PermitErrorSleepSecs>> >>

\* the positions of permit_loop inside maybe_add_to_cart_and_sleep
BookingPcs == {"book", "booking", "add_to_cart", "hold_sleep", "modify_hold"}

\* C16: action handles are not retained across polls. Whenever permit_loop is
\* in a booking attempt, availability_map was bound by the fetch of the same
\* iteration and that fetch succeeded; the clicked locator is the one this map
\* holds for book_date.
HandlesNotRetained ==
  pc \in BookingPcs =>
    /\ map_num = num
    /\ last_fetch = "ok"
    /\ ~cycle_failed
    /\ pc = "booking" => book_date \in DOMAIN availability_map

\* C16 witness: a fetch failed before availability_map was rebound, the map
\* of an earlier iteration still holds a requested date, and the loop is in
\* its except block, not in a booking
HandlesNotRetainedWitness ==
  /\ pc = "error_sleep"
  /\ map_num < num
  /\ BookDate(availability_map) # None

\* C17 as stated: a label is marked notified only if it was sent. Every label
\* of skip_notification_date_set was in the subject of an email that sendmail
\* accepted without raising, under every configuration.
MarkedOnlyIfSent == skip_notification_date_set \subseteq mailed

\* C17 as amended: with email_addr set, every label of
\* skip_notification_date_set was in the subject of an email that sendmail
\* accepted without raising; with email_addr unset no email is handed over
\* at all (and labels are marked all the same).
MarkedOnlyIfSentWhenConfigured ==
  /\ email_addr => skip_notification_date_set \subseteq mailed
  /\ ~email_addr => mailed = {}

\* C17 witness: with email_addr set, a label is marked and another one, whose
\* send raised before sendmail, is not
MarkedOnlyIfSentWitness ==
  /\ email_addr
  /\ skip_notification_date_set # {}
  /\ call.send = "connect_error"
  /\ ~(Range(call.filtered_dates) \subseteq skip_notification_date_set)

\* the step after a failed send in permit_loop is the pause of the first
\* except block, back to the head of the loop
NotifierFailureSkipsBooking ==
  (mode = "permits" /\ exc = "send_email") =>
    /\ pc' = "fetch"
    /\ sleeps' = Append(sleeps, <<"error", PermitErrorSleepSecs>>)
    /\ UNCHANGED bookVars

\* C18: ordering of notify and book in permit_loop. A booking attempt is made
\* only after the fetch and the notify step of the same iteration completed
\* without raising; a failure of send_email leads to the pause of the first
\* except block and to the next iteration, with no booking.
NotifyBeforeBook ==
  /\ [](pc \in BookingPcs =>
          /\ last_fetch = "ok"
          /\ call.made
          /\ call.cycle = num
          /\ SendReturns(call.send) \/ call.send = "none")
  /\ []((mode = "permits" /\ exc = "send_email") => pc = "error_sleep")
  /\ [][NotifierFailureSkipsBooking]_vars

\* C18 witness: send_email raised in an iteration whose snapshot holds a
\* requested date, and the loop is in its first except block
NotifyBeforeBookWitness ==
  /\ mode = "permits"
  /\ pc = "error_sleep"
  /\ exc = "send_email"
  /\ call.cycle = num
  /\ BookDate(availability_map) # None

====
